---- MODULE Spec2Model ----
(***************************************************************************)
(* A model of src/app.py, the GitHub repositories analytics dashboard: the *)
(* cached loader load_data, the sidebar filter controls, the filter        *)
(* pipeline, the key metrics, the tabs and the CSV download, together with *)
(* the except handlers that end a run of the script.                       *)
(*                                                                         *)
(* One run of the script is one user interaction.  The process keeps the   *)
(* cache of load_data between runs; everything else is rebuilt per run.    *)
(***************************************************************************)
EXTENDS Integers, Sequences, FiniteSets, TLC

VARIABLES
    source,              \* the file github_dataset.csv
    cache,               \* st.cache_data entry of load_data: <<>> or <<frame>>
    nLoads,              \* completed executions of the body of load_data
    pc,                  \* position of the current run of the script
    data,                \* the frame load_data returned to this run
    selected_languages,  \* value of the multiselect
    star_range,          \* value of the slider
    date_range,          \* value of the date input
    filtered_data,       \* the frame the views read
    rendered,            \* dashboard elements rendered in this run
    messages,            \* st.error / st.warning calls of this run, in order
    metrics,             \* st.metric calls of this run, in order
    top_repos,           \* the table of tab2
    csv                  \* the data handed to st.download_button

vars == <<source, cache, nLoads, pc, data, selected_languages, star_range,
          date_range, filtered_data, rendered, messages, metrics, top_repos, csv>>

----------------------------------------------------------------------------
(* Bounds of the model *)

MaxRows == 2        \* rows of the source file
MaxLoads == 2       \* cap of the nLoads counter
MaxTopRows == 11    \* rows of a filtered frame handed to tab2 alone

(* Program constants *)

TopN == 10

----------------------------------------------------------------------------
(* Cells of the source file *)

EmptyCell == [kind |-> "empty", v |-> 0]
NAToken == [kind |-> "N/A", v |-> 0]
TextCell == [kind |-> "text", v |-> 0]
\* a number, written in halves: Num(3) is 1.5, Num(-3) is -1.5
Num(h) == [kind |-> "num", v |-> h]
\* a timestamp: day and time of day (0 is midnight)
Times == {0, 1}
Timestamp(day, tod) == day * Cardinality(Times) + tod
Stamp(day, tod) == [kind |-> "ts", v |-> Timestamp(day, tod)]

NaN == [kind |-> "nan", v |-> 0]
NaT == -1
NoLanguage == ""

RequiredCols ==
    <<"repositories", "language", "stars_count", "forks_count",
      "contributors", "issues_count">>
CountCols == <<"stars_count", "forks_count", "contributors", "issues_count">>

Range(s) == {s[i] : i \in 1..Len(s)}

RECURSIVE SeqsUpTo(_, _)
SeqsUpTo(S, n) ==
    IF n = 0 THEN {<<>>}
    ELSE LET shorter == SeqsUpTo(S, n - 1)
         IN shorter \cup {Append(s, x) : s \in {t \in shorter : Len(t) = n - 1}, x \in S}

RECURSIVE Sum(_, _)
Sum(rows, col) ==
    IF rows = <<>> THEN 0 ELSE rows[1][col] + Sum(Tail(rows), col)

NoFrame == [cols |-> <<>>, rows |-> <<>>]

----------------------------------------------------------------------------
(* load_data, src/app.py lines 34-45 *)

\* pd.read_csv: the file as a frame, or the exception it raises.  Empty
\* cells and the default NA tokens ("N/A" among them) are read as NaN.
read_cell(c) == IF c.kind \in {"empty", "N/A"} THEN NaN ELSE c

read_csv(src) ==
    CASE src.kind = "missing" -> [ok |-> FALSE, exc |-> "FileNotFoundError"]
      [] src.kind = "empty" -> [ok |-> FALSE, exc |-> "EmptyDataError"]
      [] src.kind = "malformed" -> [ok |-> FALSE, exc |-> "ParserError"]
      [] OTHER ->
           [ok |-> TRUE,
            frame |->
              [cols |-> src.cols,
               rows |-> [i \in 1..Len(src.rows) |->
                           [index |-> i - 1,
                            repositories |-> src.rows[i].repositories,
                            language |-> src.rows[i].language,
                            stars_count |-> read_cell(src.rows[i].stars_count),
                            forks_count |-> read_cell(src.rows[i].forks_count),
                            contributors |-> read_cell(src.rows[i].contributors),
                            issues_count |-> read_cell(src.rows[i].issues_count),
                            created_at |-> read_cell(src.rows[i].created_at),
                            age |-> NaT]]]]

\* Series.fillna('Not Specified') on the language column
fillna_language(v) == IF v = NoLanguage THEN "Not Specified" ELSE v

\* Series.fillna(0) on a count cell
fillna_zero(c) == IF c.kind = "nan" THEN Num(0) ELSE c

\* astype(int) on one number: truncation towards zero
astype_int(c) ==
    IF c.v >= 0 THEN c.v \div 2 ELSE -((-c.v) \div 2)

\* astype(int) raises ValueError when the column holds a text
castable(frame, col) ==
    \A i \in 1..Len(frame.rows) : fillna_zero(frame.rows[i][col]).kind = "num"

\* pd.to_datetime(errors='coerce'): what does not parse becomes NaT
to_datetime_coerce(c) == IF c.kind = "ts" THEN c.v ELSE NaT

\* the first line of the body that raises, or the normalized frame
load_data(src) ==
    LET r == read_csv(src) IN
    IF ~r.ok THEN r
    ELSE LET f == r.frame
             has(col) == col \in Range(f.cols)
             firstBad ==
                 CHOOSE k \in 1..(Len(CountCols) + 1) :
                     /\ \/ k = Len(CountCols) + 1
                        \/ ~has(CountCols[k])
                        \/ ~castable(f, CountCols[k])
                     /\ \A j \in 1..(k - 1) :
                            has(CountCols[j]) /\ castable(f, CountCols[j])
         IN IF ~has("language") THEN [ok |-> FALSE, exc |-> "KeyError"]
            ELSE IF firstBad <= Len(CountCols)
            THEN IF ~has(CountCols[firstBad])
                 THEN [ok |-> FALSE, exc |-> "KeyError"]
                 ELSE [ok |-> FALSE, exc |-> "ValueError"]
            ELSE [ok |-> TRUE,
                  frame |->
                    [cols |-> f.cols,
                     rows |-> [i \in 1..Len(f.rows) |->
                        [f.rows[i] EXCEPT
                           !.language = fillna_language(@),
                           !.stars_count = astype_int(fillna_zero(@)),
                           !.forks_count = astype_int(fillna_zero(@)),
                           !.contributors = astype_int(fillna_zero(@)),
                           !.issues_count = astype_int(fillna_zero(@)),
                           !.created_at =
                               IF has("created_at") THEN to_datetime_coerce(@)
                               ELSE NaT]]]]

\* the except handlers, lines 260-270: the messages each exception ends in
handler(exc) ==
    CASE exc = "FileNotFoundError" -> <<[level |-> "error", text |-> "Dataset file not found"]>>
      [] exc = "EmptyDataError" -> <<[level |-> "error", text |-> "The dataset file is empty"]>>
      [] exc = "ParserError" -> <<[level |-> "error", text |-> "Error parsing the dataset file"]>>
      [] exc = "KeyError" -> <<[level |-> "error", text |-> "Column missing"]>>
      [] OTHER -> <<[level |-> "error", text |-> "An error occurred"],
                    [level |-> "warning", text |-> "Please make sure the dataset file exists"]>>

----------------------------------------------------------------------------
(* format_number, lines 47-53.  The frames of the model hold numbers below *)
(* 10^3, so only the last branch is taken; the two others round the        *)
(* quotient to one decimal.                                                *)

one_decimal(num, unit) ==
    LET tenths == (num * 10) \div unit
        rest == (num * 10) % unit
        up == \/ 2 * rest > unit
              \/ 2 * rest = unit /\ tenths % 2 = 1
        t == IF up THEN tenths + 1 ELSE tenths
    IN ToString(t \div 10) \o "." \o ToString(t % 10)

format_number(num) ==
    IF num >= 1000000 THEN one_decimal(num, 1000000) \o "M"
    ELSE IF num >= 1000 THEN one_decimal(num, 1000) \o "K"
    ELSE ToString(num)

----------------------------------------------------------------------------
(* Sidebar filters, lines 68-93 *)

has_column(frame, col) == col \in Range(frame.cols)

\* ['All'] + sorted(data['language'].unique().tolist()), as the set of options
all_languages(frame) ==
    {"All"} \cup {frame.rows[i].language : i \in 1..Len(frame.rows)}

column_values(frame, col) == {frame.rows[i][col] : i \in 1..Len(frame.rows)}

Min(S) == CHOOSE x \in S : \A y \in S : x <= y
Max(S) == CHOOSE x \in S : \A y \in S : y <= x

\* created_at.min() and .max() skip NaT
valid_stamps(frame) == column_values(frame, "created_at") \ {NaT}

\* st.date_input keeps the date of a datetime and drops its time of day
date_of(ts) == ts \div Cardinality(Times)

\* pd.to_datetime(date): midnight of that date
to_datetime(d) == Timestamp(d, 0)

\* the defaults the controls are built with
default_languages == {"All"}
default_star_range(frame) ==
    <<Min(column_values(frame, "stars_count")), Max(column_values(frame, "stars_count"))>>
default_date_range(frame) ==
    <<date_of(Min(valid_stamps(frame))), date_of(Max(valid_stamps(frame)))>>

\* what a user can set the controls to
Days == {1, 2}
Today == Max(Days) + 1
slider_values(frame) ==
    LET d == default_star_range(frame)
    IN {p \in (d[1]..d[2]) \X (d[1]..d[2]) : p[1] <= p[2]}
date_inputs ==
    {<<>>} \cup {<<d>> : d \in Days} \cup
    {p \in Days \X Days : p[1] <= p[2]}

----------------------------------------------------------------------------
(* Apply filters, lines 95-114 *)

language_filter(rows, langs) ==
    IF langs # {} /\ "All" \notin langs
    THEN SelectSeq(rows, LAMBDA r : r.language \in langs)
    ELSE rows

\* the star range with its upper end left out
star_filter_open(rows, sr) ==
    IF sr # <<>>
    THEN SelectSeq(rows, LAMBDA r : r.stars_count >= sr[1] /\ r.stars_count < sr[2])
    ELSE rows

star_filter(rows, sr) ==
    IF sr # <<>>
    THEN SelectSeq(rows, LAMBDA r : r.stars_count >= sr[1] /\ r.stars_count <= sr[2])
    ELSE rows

\* a comparison with NaT is False
date_filter(rows, dr) ==
    SelectSeq(rows, LAMBDA r : /\ r.created_at # NaT
                               /\ r.created_at >= to_datetime(dr[1])
                               /\ r.created_at <= to_datetime(dr[2]))

\* date_range[1] of a one-element tuple raises IndexError
date_filter_raises(frame, dr) == has_column(frame, "created_at") /\ Len(dr) = 1

apply_filters(frame, langs, sr, dr) ==
    LET byLanguage == language_filter(frame.rows, langs)
        byStars == star_filter(byLanguage, sr)
        byDate == IF has_column(frame, "created_at") /\ dr # <<>>
                  THEN date_filter(byStars, dr)
                  ELSE byStars
    IN [cols |-> frame.cols, rows |-> byDate]

----------------------------------------------------------------------------
(* Tabs, lines 127-237 *)

RemoveAt(s, i) == SubSeq(s, 1, i - 1) \o SubSeq(s, i + 1, Len(s))

\* nlargest that keeps the last of the records with equal stars
RECURSIVE nlargest_last(_, _)
nlargest_last(n, rows) ==
    IF n = 0 \/ rows = <<>> THEN <<>>
    ELSE LET best == Max({rows[i].stars_count : i \in 1..Len(rows)})
             last == Max({i \in 1..Len(rows) : rows[i].stars_count = best})
         IN <<rows[last]>> \o nlargest_last(n - 1, RemoveAt(rows, last))

\* DataFrame.nlargest(n, 'stars_count'), keep='first'
RECURSIVE nlargest(_, _)
nlargest(n, rows) ==
    IF n = 0 \/ rows = <<>> THEN <<>>
    ELSE LET best == Max({rows[i].stars_count : i \in 1..Len(rows)})
             first == Min({i \in 1..Len(rows) : rows[i].stars_count = best})
         IN <<rows[first]>> \o nlargest(n - 1, RemoveAt(rows, first))

\* lines 164-170: the five columns, stars and forks formatted
top_table(rows) ==
    LET top == nlargest(TopN, rows)
    IN [i \in 1..Len(top) |->
          [index |-> top[i].index,
           repositories |-> top[i].repositories,
           language |-> top[i].language,
           stars_count |-> format_number(top[i].stars_count),
           forks_count |-> format_number(top[i].forks_count),
           contributors |-> top[i].contributors]]

\* lines 191 and 204: the in-place column assignments of tab3
with_age(frame) ==
    IF has_column(frame, "created_at")
    THEN [cols |-> Append(frame.cols, "age"),
          rows |-> [i \in 1..Len(frame.rows) |->
                      [frame.rows[i] EXCEPT
                         !.age = IF frame.rows[i].created_at = NaT THEN NaT
                                 ELSE Today - date_of(frame.rows[i].created_at)]]]
    ELSE frame

tab_elements(frame) ==
    {"pie_languages", "scatter_stars_forks", "top_table", "scatter_issues_contributors"}
    \cup (IF has_column(frame, "created_at") THEN {"trend_chart", "age_histogram"} ELSE {})
    \cup (IF has_column(frame, "country") THEN {"choropleth"} ELSE {})
    \cup (IF has_column(frame, "topics") THEN {"word_cloud"} ELSE {})

----------------------------------------------------------------------------
(* Download Filtered Data, lines 239-246 *)

cell_text(row, col) ==
    IF col \in {"repositories", "language"} THEN row[col]
    ELSE IF row[col] = NaT /\ col \in {"created_at", "age"} THEN ""
    ELSE ToString(row[col])

\* DataFrame.to_csv(index=False): the header and one line of cells per row
to_csv(frame) ==
    [header |-> frame.cols,
     lines |-> [i \in 1..Len(frame.rows) |->
                  [k \in 1..Len(frame.cols) |-> cell_text(frame.rows[i], frame.cols[k])]]]

NoCsv == [header |-> <<>>, lines |-> <<>>]

----------------------------------------------------------------------------
(* The source files of the model *)

RepoName(i) == "repo" \o ToString(i)

Named(rows) == [i \in 1..Len(rows) |-> [rows[i] EXCEPT !.repositories = RepoName(i)]]

RawRow(lang, stars, forks, contrib, issues, created) ==
    [repositories |-> "", language |-> lang, stars_count |-> stars,
     forks_count |-> forks, contributors |-> contrib, issues_count |-> issues,
     created_at |-> created]

MissingFile == [kind |-> "missing", cols |-> <<>>, rows |-> <<>>]
EmptyFile == [kind |-> "empty", cols |-> <<>>, rows |-> <<>>]
MalformedFile == [kind |-> "malformed", cols |-> <<>>, rows |-> <<>>]
CsvFile(cols, rows) == [kind |-> "csv", cols |-> cols, rows |-> Named(rows)]

WithCreatedAt == Append(RequiredCols, "created_at")

\* rows of the dashboard runs: two languages, two star counts, an absent
\* date, a date after midnight and a date at midnight
DatedRows ==
    {RawRow(l, s, Num(4), Num(2), NAToken, c) :
        l \in {NoLanguage, "Go"}, s \in {EmptyCell, Num(3)},
        c \in {EmptyCell, Stamp(1, 1), Stamp(2, 0)}}
UndatedRows ==
    {RawRow(l, s, Num(4), Num(2), NAToken, EmptyCell) :
        l \in {NoLanguage, "Go"}, s \in {EmptyCell, Num(3)}}

Sources ==
    {MissingFile, EmptyFile, MalformedFile}
    \cup {CsvFile(WithCreatedAt, rows) : rows \in SeqsUpTo(DatedRows, MaxRows)}
    \cup {CsvFile(RequiredCols, rows) : rows \in SeqsUpTo(UndatedRows, MaxRows)}

----------------------------------------------------------------------------
(* The runs of the script *)

RunBlank ==
    /\ data = NoFrame
    /\ selected_languages = {}
    /\ star_range = <<>>
    /\ date_range = <<>>
    /\ filtered_data = NoFrame
    /\ rendered = {}
    /\ messages = <<>>
    /\ metrics = <<>>
    /\ top_repos = <<>>
    /\ csv = NoCsv

Init ==
    /\ source \in Sources
    /\ cache = <<>>
    /\ nLoads = 0
    /\ pc = "idle"
    /\ RunBlank

\* an exception reaches the handlers of lines 260-270
Raise(exc) ==
    /\ pc' = "error"
    /\ messages' = messages \o handler(exc)

\* load_data without its cache decorator
cache_never_hit == FALSE

\* st.cache_data: the stored frame is returned while there is one
cache_hit == cache # <<>>

\* line 57: data = load_data()
Load ==
    /\ pc = "idle"
    /\ IF cache_hit
       THEN /\ data' = cache[1]
            /\ pc' = "loaded"
            /\ UNCHANGED <<cache, nLoads, messages>>
       ELSE LET r == load_data(source) IN
            IF r.ok
            THEN /\ nLoads < MaxLoads
                 /\ data' = r.frame
                 /\ cache' = <<r.frame>>
                 /\ nLoads' = nLoads + 1
                 /\ pc' = "loaded"
                 /\ UNCHANGED messages
            ELSE /\ Raise(r.exc)
                 /\ UNCHANGED <<data, cache, nLoads>>
    /\ UNCHANGED <<source, selected_languages, star_range, date_range,
                   filtered_data, rendered, metrics, top_repos, csv>>


\* lines 59-93: the title and the sidebar controls.  The slider raises on a
\* frame without rows (int of NaN, line 83).  On a frame whose created_at
\* holds no timestamp the default of the date input is (NaT, NaT), which the
\* control either rejects or replaces by a value of its own.
Sidebar ==
    /\ pc = "loaded"
    /\ IF data.rows = <<>>
       THEN /\ rendered' = rendered \cup {"title", "language_filter"}
            /\ Raise("ValueError")
            /\ UNCHANGED <<selected_languages, star_range, date_range>>
       ELSE \E langs \in SUBSET all_languages(data), sr \in slider_values(data) :
              \/ /\ ~has_column(data, "created_at")
                 /\ selected_languages' = langs
                 /\ star_range' = sr
                 /\ rendered' = rendered \cup {"title", "language_filter", "star_slider"}
                 /\ pc' = "sidebar"
                 /\ UNCHANGED <<date_range, messages>>
              \/ /\ has_column(data, "created_at")
                 /\ \E dr \in date_inputs :
                      /\ selected_languages' = langs
                      /\ star_range' = sr
                      /\ date_range' = dr
                 /\ rendered' = rendered \cup
                        {"title", "language_filter", "star_slider", "date_input"}
                 /\ pc' = "sidebar"
                 /\ UNCHANGED messages
              \/ /\ has_column(data, "created_at")
                 /\ valid_stamps(data) = {}
                 /\ selected_languages' = langs
                 /\ star_range' = sr
                 /\ rendered' = rendered \cup {"title", "language_filter", "star_slider"}
                 /\ Raise("StreamlitAPIException")
                 /\ UNCHANGED date_range
    /\ UNCHANGED <<source, cache, nLoads, data, filtered_data, metrics, top_repos, csv>>

\* lines 95-114
ApplyFilters ==
    /\ pc = "sidebar"
    /\ IF date_filter_raises(data, date_range)
       THEN /\ filtered_data' =
                  [cols |-> data.cols,
                   rows |-> star_filter(language_filter(data.rows, selected_languages),
                                        star_range)]
            /\ Raise("IndexError")
       ELSE /\ filtered_data' =
                  apply_filters(data, selected_languages, star_range, date_range)
            /\ pc' = "filtered"
            /\ UNCHANGED messages
    /\ UNCHANGED <<source, cache, nLoads, data, selected_languages, star_range,
                   date_range, rendered, metrics, top_repos, csv>>

\* int(mean) of line 125: the mean of no rows is NaN and int(NaN) raises
\* ValueError; otherwise the quotient truncated towards zero
int_mean(rows, col) ==
    LET total == Sum(rows, col)
    IN IF total >= 0 THEN total \div Len(rows) ELSE -((-total) \div Len(rows))

\* the st.metric calls of lines 119-125 that complete
key_metrics(rows) ==
    LET three == <<<<"Total Repositories", ToString(Len(rows))>>,
                   <<"Total Stars", format_number(Sum(rows, "stars_count"))>>,
                   <<"Total Forks", format_number(Sum(rows, "forks_count"))>>>>
    IN IF rows = <<>> THEN three
       ELSE Append(three,
                <<"Avg Contributors", format_number(int_mean(rows, "contributors"))>>)

metric_elements(rows) ==
    {"metric_total", "metric_stars", "metric_forks"}
    \cup (IF rows = <<>> THEN {} ELSE {"metric_contributors"})

\* lines 116-125
KeyMetrics ==
    /\ pc = "filtered"
    /\ metrics' = key_metrics(filtered_data.rows)
    /\ rendered' = rendered \cup metric_elements(filtered_data.rows)
    /\ IF filtered_data.rows = <<>>
       THEN Raise("ValueError")
       ELSE pc' = "metrics" /\ UNCHANGED messages
    /\ UNCHANGED <<source, cache, nLoads, data, selected_languages, star_range,
                   date_range, filtered_data, top_repos, csv>>

\* lines 127-237: the four tabs and the word cloud
Tabs ==
    /\ pc = "metrics"
    /\ top_repos' = top_table(filtered_data.rows)
    /\ filtered_data' = with_age(filtered_data)
    /\ rendered' = rendered \cup tab_elements(filtered_data)
    /\ pc' = "tabs"
    /\ UNCHANGED <<source, cache, nLoads, data, selected_languages, star_range,
                   date_range, messages, metrics, csv>>

\* lines 239-258
Download ==
    /\ pc = "tabs"
    /\ csv' = to_csv(filtered_data)
    /\ rendered' = rendered \cup {"download_button"}
    /\ pc' = "done"
    /\ UNCHANGED <<source, cache, nLoads, data, selected_languages, star_range,
                   date_range, filtered_data, messages, metrics, top_repos>>

\* the next interaction runs the script again from the top; only the cache
\* of load_data outlives the run
Rerun ==
    /\ pc \in {"done", "error"}
    /\ pc' = "idle"
    /\ data' = NoFrame
    /\ selected_languages' = {}
    /\ star_range' = <<>>
    /\ date_range' = <<>>
    /\ filtered_data' = NoFrame
    /\ rendered' = {}
    /\ messages' = <<>>
    /\ metrics' = <<>>
    /\ top_repos' = <<>>
    /\ csv' = NoCsv
    /\ UNCHANGED <<source, cache, nLoads>>

\* the file is removed between two interactions (the cache has no
\* invalidation)
SourceRemoved ==
    /\ pc = "idle"
    /\ cache # <<>>
    /\ source # MissingFile
    /\ source' = MissingFile
    /\ UNCHANGED <<cache, nLoads, pc, data, selected_languages, star_range,
                   date_range, filtered_data, rendered, messages, metrics,
                   top_repos, csv>>

Next ==
    \/ Load
    \/ Sidebar
    \/ ApplyFilters
    \/ KeyMetrics
    \/ Tabs
    \/ Download
    \/ Rerun
    \/ SourceRemoved

Spec == Init /\ [][Next]_vars

----------------------------------------------------------------------------
(* load_data alone, on files whose count cells hold every kind of value *)

LoadCells == {NAToken, TextCell, Num(-3), Num(5)}
LoadRows ==
    {RawRow(l, s, f, c, i, t) :
        l \in {NoLanguage, "Go"}, s \in LoadCells, f \in LoadCells,
        c \in LoadCells, i \in LoadCells, t \in {TextCell, Stamp(1, 1)}}
CleanRow == RawRow("Rust", Num(2), Num(2), Num(2), Num(2), Stamp(2, 0))

Without(cols, col) == SelectSeq(cols, LAMBDA c : c # col)

LoadSources ==
    {MissingFile, EmptyFile, MalformedFile, CsvFile(WithCreatedAt, <<>>)}
    \cup {CsvFile(WithCreatedAt, <<r>>) : r \in LoadRows}
    \cup {CsvFile(WithCreatedAt, <<CleanRow, r>>) : r \in LoadRows}
    \cup {CsvFile(Without(WithCreatedAt, col), <<CleanRow>>) :
            col \in {"language", "stars_count", "issues_count", "created_at"}}

InitLoad ==
    /\ source \in LoadSources
    /\ cache = <<>>
    /\ nLoads = 0
    /\ pc = "idle"
    /\ RunBlank

SpecLoad == InitLoad /\ [][Load]_vars

----------------------------------------------------------------------------
(* tab2 alone, on filtered frames longer than the table *)

TopRows ==
    {RawRow("Go", Num(2 * s), Num(4), Num(2), NAToken, EmptyCell) : s \in {0, 1}}

TopSources ==
    {CsvFile(RequiredCols, rows) : rows \in SeqsUpTo(TopRows, MaxTopRows) \ {<<>>}}

\* the run with the default criteria, up to the key metrics
InitTop ==
    \E src \in TopSources :
        LET f == load_data(src).frame
            g == apply_filters(f, default_languages, default_star_range(f), <<>>)
        IN /\ source = src
           /\ cache = <<f>>
           /\ nLoads = 1
           /\ pc = "metrics"
           /\ data = f
           /\ selected_languages = default_languages
           /\ star_range = default_star_range(f)
           /\ date_range = <<>>
           /\ filtered_data = g
           /\ rendered = {"title", "language_filter", "star_slider"}
                            \cup metric_elements(g.rows)
           /\ messages = <<>>
           /\ metrics = key_metrics(g.rows)
           /\ top_repos = <<>>
           /\ csv = NoCsv

NextTop == Tabs \/ Download

SpecTop == InitTop /\ [][NextTop]_vars

----------------------------------------------------------------------------
(* Properties *)

HasDates == has_column(data, "created_at")

\* one pass over the rows with every active predicate at once; the ends of
\* the date range are the midnights pd.to_datetime gives the chosen dates
Satisfies(r) ==
    /\ \/ selected_languages = {}
       \/ "All" \in selected_languages
       \/ r.language \in selected_languages
    /\ star_range[1] <= r.stars_count
    /\ r.stars_count <= star_range[2]
    /\ (HasDates /\ date_range # <<>>) =>
          /\ r.created_at # NaT
          /\ to_datetime(date_range[1]) <= r.created_at
          /\ r.created_at <= to_datetime(date_range[2])

\* C1: once the filters have run, the Filtered Dataset is exactly the
\* sub-sequence, in row order, of the records of the Normalized Dataset that
\* satisfy the language, star range and date range predicates together, with
\* the columns of the Normalized Dataset.
C1_FilteredIsExactlyTheMatches ==
    pc \in {"filtered", "metrics"} =>
        /\ filtered_data.cols = data.cols
        /\ filtered_data.rows = SelectSeq(data.rows, Satisfies)

\* C1 witness: a language selection without 'All', a two-date range, and a
\* result that keeps some records and drops others.
C1_Witness ==
    /\ pc = "filtered"
    /\ HasDates
    /\ Len(date_range) = 2
    /\ selected_languages # {}
    /\ "All" \notin selected_languages
    /\ filtered_data.rows # <<>>
    /\ Len(filtered_data.rows) < Len(data.rows)
    /\ \E i \in 1..Len(data.rows) : data.rows[i].stars_count = star_range[2]

DefaultCriteria ==
    /\ selected_languages = default_languages
    /\ star_range = default_star_range(data)
    /\ HasDates => /\ valid_stamps(data) # {}
                   /\ date_range = default_date_range(data)

\* C2: with the default criteria (all languages, the full star range, the
\* date control at (min(created_at), max(created_at))) the Filtered Dataset
\* equals the Normalized Dataset.
C2_DefaultsKeepEverything ==
    (pc = "filtered" /\ DefaultCriteria) => filtered_data = data

\* C3: every record load_data returns has a language and counts that are
\* not negative.
C3_NormalizedCountsNotNegative ==
    pc = "loaded" =>
        \A i \in 1..Len(data.rows) :
            /\ data.rows[i].language # NoLanguage
            /\ \A k \in 1..Len(CountCols) : data.rows[i][CountCols[k]] >= 0

Uncoercible(c) == c.kind \in {"empty", "N/A", "text"}

\* C4: a file with every required column loads whatever its count cells
\* hold, and every absent or non-numeric count is 0 in the result.
C4_BadCountBecomesZero ==
    (/\ pc \in {"loaded", "error"}
     /\ source.kind = "csv"
     /\ Range(RequiredCols) \subseteq Range(source.cols)) =>
        /\ pc = "loaded"
        /\ \A i \in 1..Len(source.rows) : \A k \in 1..Len(CountCols) :
              Uncoercible(source.rows[i][CountCols[k]]) =>
                  data.rows[i][CountCols[k]] = 0

\* C5: the header of the downloadable CSV is the column list of the
\* Normalized Dataset, in order.
C5_CsvHasTheNormalizedColumns ==
    pc = "done" => csv.header = data.cols

\* the file of this run cannot give a dataset: it is missing, empty or
\* unparsable when load_data reads it, or it holds no rows
SourceUnusable ==
    \/ cache = <<>> /\ source.kind \in {"missing", "empty", "malformed"}
    \/ source.kind = "csv" /\ source.rows = <<>>

\* C6: a run on a missing, empty (no rows) or unparsable source ends with
\* exactly one error message and nothing of the dashboard rendered.
C6_UnusableSourceShowsOnlyOneError ==
    (pc = "error" /\ SourceUnusable) =>
        /\ Len(messages) = 1
        /\ messages[1].level = "error"
        /\ rendered = {}

\* C7: a run on a dataset without a created_at column never enters the
\* error state.
C7_NoCreatedAtNeverFails ==
    ~(pc = "error" /\ data # NoFrame /\ ~HasDates)

\* C8: the source is read and normalized at most once; once the cache holds
\* the Normalized Dataset it never changes, every run starts from it, and
\* the Filtered Dataset is the filter of that dataset under the criteria of
\* the run alone.
C8_LoadedOnceAndNeverChanged ==
    [][/\ nLoads' <= 1
       /\ cache # <<>> => (cache' = cache /\ nLoads' = nLoads)
       /\ pc' \in {"loaded", "sidebar", "filtered", "metrics", "tabs", "done"} =>
             (cache' # <<>> /\ data' = cache'[1])
       /\ pc' \in {"filtered", "metrics"} =>
             filtered_data' = apply_filters(cache'[1], selected_languages',
                                            star_range', date_range')]_vars

\* C8 witness: a later interaction, after the file was removed, is served
\* from the cache and filters it.
C8_Witness ==
    /\ nLoads = 1
    /\ source = MissingFile
    /\ pc = "filtered"
    /\ filtered_data.rows # <<>>
    /\ Len(filtered_data.rows) < Len(data.rows)

\* the record of the Filtered Dataset a line of the table shows
Shown(i) ==
    CHOOSE r \in Range(filtered_data.rows) : r.index = top_repos[i].index

\* C9: the top-repositories table has min(10, number of filtered records)
\* lines, shows only records of the Filtered Dataset, each once, in
\* descending order of stars_count, records with equal stars in their
\* original row order, and leaves out no record with more stars than one
\* it shows.
C9_TopTable ==
    pc \in {"tabs", "done"} =>
        LET n == Len(filtered_data.rows)
            m == Len(top_repos)
            shownIndex == {top_repos[i].index : i \in 1..m}
        IN /\ m = IF n < TopN THEN n ELSE TopN
           /\ \A i \in 1..m :
                 /\ \E r \in Range(filtered_data.rows) : r.index = top_repos[i].index
                 /\ top_repos[i].language = Shown(i).language
                 /\ top_repos[i].repositories = Shown(i).repositories
                 /\ top_repos[i].stars_count = format_number(Shown(i).stars_count)
           /\ Cardinality(shownIndex) = m
           /\ \A i \in 1..m : \A j \in (i + 1)..m :
                 /\ Shown(i).stars_count >= Shown(j).stars_count
                 /\ Shown(i).stars_count = Shown(j).stars_count =>
                       Shown(i).index < Shown(j).index
           /\ \A r \in Range(filtered_data.rows) :
                 r.index \notin shownIndex =>
                     \A i \in 1..m : r.stars_count <= Shown(i).stars_count

\* C9 witness: more filtered records than lines, equal stars among the
\* lines shown, and a record left out.
C9_Witness ==
    /\ pc = "tabs"
    /\ Len(filtered_data.rows) > TopN
    /\ Len(top_repos) = TopN
    /\ top_repos[1].stars_count # top_repos[TopN].stars_count
    /\ top_repos[1].stars_count = top_repos[2].stars_count
    /\ top_repos[1].index > top_repos[TopN].index

\* C10: whatever the criteria select, the run computes the four metrics
\* after the filters and does not enter the error state there.
C10_MetricsAfterEveryFilter ==
    [][pc = "filtered" => (pc' = "metrics" /\ Len(metrics') = 4)]_vars

====
